---- MODULE Spec2Model ----
(***************************************************************************)
(* The readiness / health lifecycle of the Agones sidecar.                 *)
(*                                                                         *)
(* Three variants of the same lifecycle live in the repository:            *)
(*   "monitor_v1"  main.go runMonitor  + internal/probe/probe.go           *)
(*   "monitor_v2"  main.go runMonitor  + the later PingProbe.Probe         *)
(*   "manager"     agones.RunManager   + probeGameServer                   *)
(*                                                                         *)
(* Time is discrete (one unit = one second).  A step of the lifecycle      *)
(* goroutine that is able to run is taken before time advances; time only  *)
(* passes while the goroutine sleeps, blocks in a select with no ready     *)
(* case, or waits for a dial or an SDK call to return.  A Go select with   *)
(* several ready cases picks one of them at random, which is the           *)
(* disjunction of the actions enabled in the waiting state.                *)
(***************************************************************************)
EXTENDS Naturals, Sequences, FiniteSets

VARIABLES
    variant,      \* which lifecycle / probe implementation runs
    protocol,     \* strings.ToLower(cfg.PingProtocol)
    pc,           \* position of the lifecycle goroutine
    cancelled,    \* ctx.Done() is closed
    cancelPhase,  \* phase in which the signal was delivered ("none" before)
    delayLeft,    \* remaining time of time.Sleep(cfg.InitialDelay)
    retryT,       \* the retry ticker of the readiness loop
    healthT,      \* the health ticker of the heartbeat loop
    opElapsed,    \* time the call in flight (dial, Ready, Health) has taken
    sinceProbe,   \* time since the last probe attempt started (saturating)
    probeGap,     \* sinceProbe as it was when the last attempt started
    nProbes,      \* probe attempts started          (saturating counters)
    nFail,        \* failed probe outcomes
    nOk,          \* successful probe outcomes
    nReady,       \* sdk.Ready() invocations
    readyResult,  \* "none", "ok" or "err": what sdk.Ready() returned
    nHealth,      \* sdk.Health() invocations
    nHealthErr,   \* sdk.Health() calls that returned an error
    sockOpen,     \* probe sockets (net.Conn) open and not yet closed
    nOpened,      \* probe sockets opened so far (saturating)
    lastAttempt,  \* what the last probe attempt did and how it ended
    probeResult,  \* what the readiness loop returned: "none", "nil", "ctx_err"
    exitStatus,   \* "running", or the exit status: "success", "failure"
    uptime,       \* time since the process started (saturating)
    requestCounts,\* api.Server.requestCounts: map from client key to count
    resetTimers,  \* per key, remaining sleep of the reset goroutines
    recent,       \* per client IP and age, requests passed to a handler
    lastResponse, \* the last request of the file API and its answer
    apiKey,       \* SIDECAR_API_KEY of the environment ("" when not set)
    fs,           \* the upload destination in the data root: kind and content
    up,           \* per handler goroutine, the upload request it is serving
    lastHandled,  \* the last request a file-management handler was entered for
    userPath,     \* a path supplied by a client
    sanitized     \* what sanitizePath returned for userPath

lifeVars == <<variant, protocol, pc, cancelled, cancelPhase, delayLeft, retryT,
          healthT, opElapsed, sinceProbe, probeGap, nProbes, nFail, nOk,
          nReady, readyResult, nHealth, nHealthErr, sockOpen, nOpened,
          lastAttempt, probeResult, exitStatus, uptime>>

apiVars == <<requestCounts, resetTimers, recent, lastResponse>>

fileVars == <<apiKey, fs, up, lastHandled>>

pathVars == <<userPath, sanitized>>

vars == <<lifeVars, apiVars, fileVars, pathVars>>

counters == <<nProbes, nFail, nOk, nReady, nHealth, nHealthErr>>

-----------------------------------------------------------------------------
(* Configuration values and bounds *)

InitialDelay == 2
HealthInterval == 2
PingTimeout == 3
MaxCallTime == 3
MaxCount == 3
Minute == 3
RateLimit == 2
MaxReq == 4

(* time.NewTicker(2 * time.Second) in probeGameServer *)
RetryIntervalManager == 2
(* time.NewTicker(5 * time.Second) in PingProbe.Probe *)
RetryIntervalProbe == 5

Variants == {"monitor_v1", "monitor_v2", "manager"}
Protocols == {"tcp", "udp", "tcp4", "other"}
ReadOutcomes == {"data", "timeout", "error"}

RetryInterval(v) ==
    IF v = "manager" THEN RetryIntervalManager ELSE RetryIntervalProbe

Inc(n) == IF n < MaxCount THEN n + 1 ELSE n

Min(a, b) == IF a < b THEN a ELSE b

(* the earliest moment a first probe attempt can start: after the initial  *)
(* delay and the first period of the retry ticker                          *)
FirstProbeTime(v) == InitialDelay + RetryInterval(v)

(* the uptime is followed up to one second past that moment *)
UptimeCap(v) == FirstProbeTime(v) + 1

-----------------------------------------------------------------------------
(* Tickers: time.Ticker with its channel of capacity one *)

NoTicker == [on |-> FALSE, period |-> 0, left |-> 0, pending |-> FALSE]

(* faulty alternative: a ticker whose first tick is available at once *)
NewTickerFired(d) == [on |-> TRUE, period |-> d, left |-> d, pending |-> TRUE]

(* faulty alternative: the first tick comes one second after the start *)
NewTickerEarly(d) == [on |-> TRUE, period |-> d, left |-> 1, pending |-> FALSE]

NewTicker(d) == [on |-> TRUE, period |-> d, left |-> d, pending |-> FALSE]

(* faulty alternative: the deferred ticker.Stop() is missing *)
StopTickerMissing(t) == t

StopTicker(t) == [t EXCEPT !.on = FALSE, !.left = 0]

(* One unit of time passes: a tick that finds the channel full is dropped, *)
(* and the next tick stays on the original grid.                           *)
AdvanceTicker(t) ==
    IF ~t.on THEN t
    ELSE IF t.left = 1 THEN [t EXCEPT !.left = t.period, !.pending = TRUE]
    ELSE [t EXCEPT !.left = t.left - 1]

(* case <-ticker.C can proceed *)
TickReady(t) == t.pending

(* faulty alternative: the loops have no case <-ctx.Done() *)
DoneNeverReady == FALSE

(* case <-ctx.Done() can proceed *)
DoneReady == cancelled

-----------------------------------------------------------------------------
(* Phases of the lifecycle *)

Phase ==
    CASE pc \in {"connecting", "sdk_failed"} -> "NotStarted"
      [] pc = "delaying" -> "Delaying"
      [] pc \in {"probe_wait", "dialing", "reading"} -> "Probing"
      [] pc = "ready_call" -> "Ready"
      [] pc \in {"health_wait", "health_call"} -> "HealthChecking"
      [] pc = "terminated" -> "Terminated"
      [] pc = "failed" -> "Failed"

-----------------------------------------------------------------------------
(* One probe attempt: the calls it makes and the error it ends with       *)

(* networks net.DialTimeout knows; any other name is an unknown network    *)
Dialable(proto) == proto \in {"tcp", "udp", "tcp4"}

(* does the attempt call net.DialTimeout?  The later PingProbe.Probe       *)
(* rejects a protocol other than tcp and udp without dialling.             *)
DialsNetwork(v, proto) ==
    IF v = "monitor_v2" THEN proto \in {"tcp", "udp"} ELSE TRUE

(* does the attempt write "ping" on the connection it got? *)
Writes(v, proto) ==
    CASE v = "monitor_v1" -> proto # "tcp"
      [] v = "monitor_v2" -> proto = "udp"
      [] v = "manager" -> FALSE

(* does the attempt read a response after a successful write? *)
Reads(v, proto) == v = "monitor_v2" /\ proto = "udp"

(* faulty alternative: the connection is closed only after a good write *)
ClosesConnOnSuccess(v, proto, writeErr) == ~writeErr

(* is the connection the dial returned closed before the attempt ends? *)
ClosesConn(v, proto, writeErr) == TRUE

(* the error net.DialTimeout returns, netErr being the network's answer *)
DialErr(proto, netErr) == ~Dialable(proto) \/ netErr

(* probe.go: tcp dials; every other protocol dials and writes "ping" *)
AttemptErrV1(proto, dialErr, writeErr) ==
    IF proto = "tcp" THEN dialErr
    ELSE (dialErr \/ writeErr)

(* later PingProbe.Probe: tcp dials; udp dials, writes, reads for          *)
(* diagnostics only; anything else is "unsupported protocol"               *)
AttemptErrV2(proto, dialErr, writeErr, readRes) ==
    IF proto = "tcp" THEN dialErr
    ELSE IF proto = "udp" THEN (dialErr \/ writeErr)
    ELSE TRUE

(* probeGameServer: net.DialTimeout only, whatever the protocol *)
AttemptErrManager(proto, dialErr) == dialErr

AttemptErr(v, proto, dialErr, writeErr, readRes) ==
    CASE v = "monitor_v1" -> AttemptErrV1(proto, dialErr, writeErr)
      [] v = "monitor_v2" -> AttemptErrV2(proto, dialErr, writeErr, readRes)
      [] v = "manager" -> AttemptErrManager(proto, dialErr)

(* longest time the dial can take: an unknown network fails at once *)
AttemptMax(proto) ==
    IF DialsNetwork(variant, proto) /\ Dialable(proto) THEN PingTimeout ELSE 0

(* the cause carried by a failed attempt *)
Cause(v, proto, dialErr, writeErr) ==
    IF ~DialsNetwork(v, proto) \/ ~Dialable(proto) THEN "unsupported"
    ELSE IF dialErr THEN "dial"
    ELSE IF writeErr THEN "write"
    ELSE "none"

NoAttempt ==
    [dial |-> "none", write |-> "none", read |-> "none", result |-> "none",
     cause |-> "none"]

(* faulty alternative: the unified main ends with RunManager's outcome *)
ExitOnReturnJoined(v, next) ==
    IF next = "failed" THEN "failure"
    ELSE IF next = "terminated" THEN "success"
    ELSE "running"

(* exit status once the lifecycle function has returned to pc value next:  *)
(* main.go exits 1 when runMonitor returned an error and 0 otherwise; the  *)
(* unified main does not look at RunManager, which runs as a goroutine     *)
ExitOnReturn(v, next) ==
    IF v = "manager" THEN "running"
    ELSE IF next = "failed" THEN "failure"
    ELSE IF next = "terminated" THEN "success"
    ELSE "running"

Running == exitStatus = "running"

-----
(* Where the control flow goes after each call returns *)

(* faulty alternative: the loop returns nil whatever the attempt's outcome *)
AfterProbeIgnoreErr(err) == "ready_call"

(* faulty alternative: the loop gives up after a failed attempt *)
AfterProbeGiveUp(err) == IF err THEN "failed" ELSE "ready_call"

(* readiness loop: return nil on success, next iteration on failure *)
AfterProbe(err) == IF err THEN "probe_wait" ELSE "ready_call"

(* faulty alternative: the error of sdk.Ready() is logged and the heartbeat starts *)
AfterReadyIgnoreErr(err) == "health_wait"

(* faulty alternative: sdk.Ready() is called again after an error *)
AfterReadyRetry(err) == IF err THEN "ready_call" ELSE "health_wait"

(* faulty alternative: the readiness loop is entered again after an error *)
AfterReadyReprobe(err) == IF err THEN "probe_wait" ELSE "health_wait"

(* if err := agonesSDK.Ready(); err != nil { return ... } *)
AfterReady(err) == IF err THEN "failed" ELSE "health_wait"

(* faulty alternative: a failed sdk.Health() ends the heartbeat loop *)
AfterHealthFatal(err) == IF err THEN "failed" ELSE "health_wait"

(* faulty alternative: a failed sdk.Health() sends the lifecycle back to probing *)
AfterHealthReprobe(err) == IF err THEN "probe_wait" ELSE "health_wait"

(* a failed sdk.Health() is logged and the loop goes on *)
AfterHealth(err) == "health_wait"

-----------------------------------------------------------------------------------------------------------------------------------------------------------------------------------------------------------------------------
(* The file API's rate limiter (api.Server.rateLimitRequest)               *)

ClientIPs == {"10.0.0.1"}
ClientPorts == {1001, 1002}
ForwardedFor == {<<>>, <<"10.0.0.9">>, <<"10.0.0.9", "10.0.0.1">>}
Paths == {"/health", "/api/files"}

(* r.RemoteAddr is "IP:port"; a bare address has port 0 here *)
RemoteAddr(ip, port) == <<ip, port>>

(* ip := r.RemoteAddr, replaced by the first element of X-Forwarded-For    *)
(* when that header is present                                             *)
ClientKey(ip, port, xff) ==
    IF xff # <<>> THEN <<Head(xff), 0>> ELSE RemoteAddr(ip, port)

ApiKeys ==
    {ClientKey(ip, port, xff) :
        ip \in ClientIPs, port \in ClientPorts, xff \in ForwardedFor}

(* s.requestCounts[k]: zero for a key that is not in the map *)
Lookup(m, k) == IF k \in DOMAIN m THEN m[k] ELSE 0

(* s.requestCounts[k] = n *)
Put(m, k, n) == [x \in DOMAIN m \cup {k} |-> IF x = k THEN n ELSE m[x]]

(* delete(s.requestCounts, k) *)
Delete(m, k) == [x \in DOMAIN m \ {k} |-> m[x]]

(* faulty alternative: only the request that reaches the limit is refused *)
ExceededOnce(count) == count = RateLimit

(* exceeded := count >= s.rateLimit *)
Exceeded(count) == count >= RateLimit

NoResponse == [ip |-> "none", key |-> <<"none", 0>>, path |-> "none",
               status |-> "none"]

ApiInit ==
    /\ requestCounts = <<>>
    /\ resetTimers = [k \in ApiKeys |-> {}]
    /\ recent = [ip \in ClientIPs |-> [a \in 0..(Minute - 1) |-> 0]]
    /\ lastResponse = NoResponse

(* faulty alternative: the health check is limited like every other path *)
ExemptNone(path) == FALSE

(* if r.URL.Path == "/health": the limiter is skipped *)
Exempt(path) == path = "/health"

(* faulty alternative: every counted request starts a reset goroutine *)
StartsResetAlways(count) == TRUE

(* if count == 0 { go func(clientIP string) { ... }(ip) } *)
StartsReset(count) == count = 0

(* One request goes through the middleware: /health is passed on          *)
(* untouched; otherwise, under the mutex, the first request of a key       *)
(* starts the reset goroutine, the count is incremented, and the request   *)
(* is answered 429 or passed to the handler                                *)
RateLimitRequest(ip, port, xff, path) ==
    LET key == ClientKey(ip, port, xff)
        count == Lookup(requestCounts, key)
    IN IF Exempt(path)
       THEN /\ lastResponse' = [ip |-> ip, key |-> key, path |-> path,
                                status |-> "forwarded"]
            /\ UNCHANGED <<requestCounts, resetTimers, recent>>
       ELSE /\ count < MaxReq
            /\ resetTimers' =
                  IF StartsReset(count)
                  THEN [resetTimers EXCEPT ![key] = @ \cup {Minute}]
                  ELSE resetTimers
            /\ requestCounts' = Put(requestCounts, key, count + 1)
            /\ recent' =
                  IF Exceeded(count) THEN recent
                  ELSE [recent EXCEPT ![ip][0] = @ + 1]
            /\ lastResponse' =
                  [ip |-> ip, key |-> key, path |-> path,
                   status |-> IF Exceeded(count) THEN "429"
                              ELSE "forwarded"]

(* A request of some client to /health or to the file listing *)
ApiRequest ==
    /\ \E ip \in ClientIPs, port \in ClientPorts, xff \in ForwardedFor,
          path \in Paths :
         RateLimitRequest(ip, port, xff, path)
    /\ UNCHANGED <<lifeVars, fileVars, pathVars>>

(* A reset goroutine wakes up after its minute and deletes its key *)
ResetFire ==
    /\ \E key \in ApiKeys :
         /\ 0 \in resetTimers[key]
         /\ requestCounts' = Delete(requestCounts, key)
         /\ resetTimers' = [resetTimers EXCEPT ![key] = @ \ {0}]
    /\ UNCHANGED <<recent, lastResponse>>
    /\ UNCHANGED <<lifeVars, fileVars, pathVars>>

(* One time unit passes for the file API: no reset goroutine is due *)
ApiTick ==
    /\ \A key \in ApiKeys : 0 \notin resetTimers[key]
    /\ resetTimers' = [k \in ApiKeys |-> {r - 1 : r \in resetTimers[k]}]
    /\ recent' = [ip \in ClientIPs |->
                    [a \in 0..(Minute - 1) |->
                        IF a = 0 THEN 0 ELSE recent[ip][a - 1]]]
    /\ UNCHANGED <<requestCounts, lastResponse>>
    /\ UNCHANGED <<lifeVars, fileVars, pathVars>>

NextApi ==
    \/ ApiRequest
    \/ ResetFire
    \/ ApiTick

-----------------------------------------------------------------------------
(* Paths of the file API.  A string is the sequence of its characters, so  *)
(* that strings.HasPrefix compares characters as the library does.          *)

MaxPathLen == 5

PathChars == {"/", ".", "d", "2"}

(* s.dataRoot: a clean absolute directory name *)
DataRoot == <<"/", "d">>

UserPaths == UNION {[1..n -> PathChars] : n \in 0..MaxPathLen}

(* strings.HasPrefix(s, prefix) *)
HasPrefix(s, prefix) ==
    /\ Len(prefix) <= Len(s)
    /\ SubSeq(s, 1, Len(prefix)) = prefix

(* the elements of s between its separators, empty ones included *)
RECURSIVE SplitFrom(_, _, _, _)
SplitFrom(s, i, cur, acc) ==
    IF i > Len(s) THEN Append(acc, cur)
    ELSE IF s[i] = "/" THEN SplitFrom(s, i + 1, <<>>, Append(acc, cur))
    ELSE SplitFrom(s, i + 1, Append(cur, s[i]), acc)

Split(s) == SplitFrom(s, 1, <<>>, <<>>)

(* filepath.Clean on a rooted path, element by element: empty elements and *)
(* "." are skipped, ".." removes the element before it and is dropped at   *)
(* the root                                                                *)
RECURSIVE CleanFrom(_, _, _)
CleanFrom(elems, i, out) ==
    IF i > Len(elems) THEN out
    ELSE IF elems[i] = <<>> \/ elems[i] = <<".">>
         THEN CleanFrom(elems, i + 1, out)
    ELSE IF elems[i] = <<".", ".">>
         THEN CleanFrom(elems, i + 1,
                        IF out = <<>> THEN out
                        ELSE SubSeq(out, 1, Len(out) - 1))
    ELSE CleanFrom(elems, i + 1, Append(out, elems[i]))

(* the rooted path made of the elements: "/" alone when there are none *)
RECURSIVE Rooted(_, _)
Rooted(elems, i) ==
    IF i > Len(elems) THEN <<>>
    ELSE <<"/">> \o elems[i] \o Rooted(elems, i + 1)

Clean(s) ==
    LET out == CleanFrom(Split(s), 1, <<>>)
    IN IF out = <<>> THEN <<"/">> ELSE Rooted(out, 1)

(* filepath.Join(dir, elem) for an absolute dir: an empty elem is ignored *)
FilepathJoin(dir, elem) ==
    IF elem = <<>> THEN Clean(dir) ELSE Clean(dir \o <<"/">> \o elem)

NoPath == [called |-> FALSE, err |-> FALSE, path |-> <<>>]

(* Server.sanitizePath: join with the root, then the prefix check *)
sanitizePath(p) ==
    LET fullPath == FilepathJoin(DataRoot, p)
    IN IF ~HasPrefix(fullPath, DataRoot)
       THEN [called |-> TRUE, err |-> TRUE, path |-> <<>>]
       ELSE [called |-> TRUE, err |-> FALSE, path |-> fullPath]

(* the path is the data root or lies below it *)
WithinRoot(path) ==
    \/ path = DataRoot
    \/ HasPrefix(path, DataRoot \o <<"/">>)

PathInit ==
    /\ userPath = <<>>
    /\ sanitized = NoPath

(* A handler calls sanitizePath on the path of its request *)
SanitizeCall ==
    /\ ~sanitized.called
    /\ sanitized' = sanitizePath(userPath)
    /\ UNCHANGED userPath
    /\ UNCHANGED <<lifeVars, apiVars, fileVars>>

NextPath == SanitizeCall

-----------------------------------------------------------------------------
(* The file-management handlers behind the middleware (api.Server.Run)     *)

(* the clients' X-API-Key header: absent, the configured key, another key  *)
ApiKeyHeaders == {"", "k1", "k2"}

(* the connection the file requests of this model arrive on *)
FileIP == "10.0.0.1"
FilePort == 1001

(* the file an upload into the data root writes, and the payloads *)
FileName == <<"f">>
FilePaths == {<<>>, FileName}
Goroutines == {1, 2}
Payload(g) == IF g = 1 THEN "a" ELSE "b"

(* the chain of Server.Run is rateLimitRequest(mux): the request enters    *)
(* the handler when the limiter does not answer 429                        *)
Passes ==
    ~Exceeded(Lookup(requestCounts, ClientKey(FileIP, FilePort, <<>>)))

(* no middleware and no handler reads the X-API-Key header, and NewServer  *)
(* keeps no key: every header value is accepted                            *)
Authenticated(key, hdr) == TRUE

Through(path) == RateLimitRequest(FileIP, FilePort, <<>>, path)

Idle(status) ==
    [pc |-> "idle", overwrite |-> FALSE, unlinked |-> FALSE,
     status |-> status]

NoFile == [kind |-> "absent", data |-> ""]

NoRequest == [endpoint |-> "none", hdr |-> ""]

FileInit ==
    /\ fs = NoFile
    /\ up = [g \in Goroutines |-> Idle("none")]
    /\ lastHandled = NoRequest

(* uploadFileHandler up to its os.Stat(destPath): the destination          *)
(* directory is the data root, the file name is FileName                   *)
UploadStart(g) ==
    /\ up[g].pc = "idle"
    /\ \E hdr \in ApiKeyHeaders, overwrite \in BOOLEAN :
         /\ Through("/api/files/upload")
         /\ IF ~(Passes /\ Authenticated(apiKey, hdr))
            THEN /\ up' = [up EXCEPT ![g] = Idle("429")]
                 /\ UNCHANGED lastHandled
            ELSE LET dir == sanitizePath(<<>>)
                     destPath == FilepathJoin(dir.path, FileName)
                 IN /\ lastHandled' = [endpoint |-> "upload", hdr |-> hdr]
                    /\ up' = [up EXCEPT ![g] =
                         IF dir.err \/ ~HasPrefix(destPath, dir.path)
                         THEN Idle("400")
                         ELSE IF fs.kind # "absent" /\ ~overwrite
                         THEN Idle("409")
                         ELSE [pc |-> "checked", overwrite |-> overwrite,
                               unlinked |-> FALSE, status |-> "none"]]
    /\ UNCHANGED <<apiKey, fs>>
    /\ UNCHANGED <<lifeVars, pathVars>>

(* os.OpenFile(destPath, O_WRONLY|O_CREATE|O_TRUNC): fails on a directory, *)
(* creates the file or empties the one that is there                       *)
UploadOpen(g) ==
    /\ up[g].pc = "checked"
    /\ IF fs.kind = "dir"
       THEN /\ up' = [up EXCEPT ![g] = Idle("500")]
            /\ UNCHANGED fs
       ELSE /\ up' = [up EXCEPT ![g].pc = "opened"]
            /\ fs' = [kind |-> "file", data |-> ""]
    /\ UNCHANGED <<apiKey, lastHandled>>
    /\ UNCHANGED <<lifeVars, apiVars, pathVars>>

(* io.Copy(dst, file) and the response: 201, or 500 when the copy failed   *)
(* and left the file as it was opened; a file removed meanwhile is written *)
(* to no longer by name                                                    *)
UploadCopy(g) ==
    /\ up[g].pc = "opened"
    /\ \E copyErr \in BOOLEAN :
         /\ up' = [up EXCEPT ![g] = Idle(IF copyErr THEN "500" ELSE "201")]
         /\ fs' = IF copyErr \/ up[g].unlinked THEN fs
                  ELSE [kind |-> "file", data |-> Payload(g)]
    /\ UNCHANGED <<apiKey, lastHandled>>
    /\ UNCHANGED <<lifeVars, apiVars, pathVars>>

(* deleteFileHandler: the root itself is refused, anything else removed *)
DeleteFile ==
    /\ \E hdr \in ApiKeyHeaders, path \in FilePaths :
         /\ Through("/api/files/delete")
         /\ IF ~(Passes /\ Authenticated(apiKey, hdr))
            THEN UNCHANGED <<fs, up, lastHandled>>
            ELSE LET res == sanitizePath(path)
                     removes == ~res.err /\ res.path # DataRoot
                 IN /\ lastHandled' = [endpoint |-> "delete", hdr |-> hdr]
                    /\ fs' = IF removes THEN NoFile ELSE fs
                    /\ up' = IF removes
                             THEN [g \in Goroutines |->
                                     IF up[g].pc = "opened"
                                     THEN [up[g] EXCEPT !.unlinked = TRUE]
                                     ELSE up[g]]
                             ELSE up
    /\ UNCHANGED apiKey
    /\ UNCHANGED <<lifeVars, pathVars>>

(* createDirHandler: os.MkdirAll creates what is missing and fails on a    *)
(* file                                                                    *)
CreateDir ==
    /\ \E hdr \in ApiKeyHeaders, path \in FilePaths :
         /\ Through("/api/files/create-dir")
         /\ IF ~(Passes /\ Authenticated(apiKey, hdr))
            THEN UNCHANGED <<fs, lastHandled>>
            ELSE LET res == sanitizePath(path)
                 IN /\ lastHandled' = [endpoint |-> "create-dir", hdr |-> hdr]
                    /\ fs' = IF ~res.err /\ res.path # DataRoot
                                /\ fs.kind = "absent"
                             THEN [kind |-> "dir", data |-> ""]
                             ELSE fs
    /\ UNCHANGED <<apiKey, up>>
    /\ UNCHANGED <<lifeVars, pathVars>>

(* listFilesHandler and downloadFileHandler: they read and change nothing *)
ReadFiles ==
    /\ \E hdr \in ApiKeyHeaders,
          path \in {"/api/files", "/api/files/download"} :
         /\ Through(path)
         /\ lastHandled' =
               IF ~(Passes /\ Authenticated(apiKey, hdr)) THEN lastHandled
               ELSE [endpoint |-> IF path = "/api/files" THEN "list"
                                  ELSE "download",
                     hdr |-> hdr]
    /\ UNCHANGED <<apiKey, fs, up>>
    /\ UNCHANGED <<lifeVars, pathVars>>

NextFiles ==
    \/ \E g \in Goroutines : UploadStart(g)
    \/ \E g \in Goroutines : UploadOpen(g)
    \/ \E g \in Goroutines : UploadCopy(g)
    \/ DeleteFile
    \/ CreateDir
    \/ ReadFiles

-----
LifeInit ==
    /\ variant \in Variants
    /\ protocol \in Protocols
    /\ pc = "connecting"
    /\ cancelled = FALSE
    /\ cancelPhase = "none"
    /\ delayLeft = InitialDelay
    /\ retryT = NoTicker
    /\ healthT = NoTicker
    /\ opElapsed = 0
    /\ sinceProbe = RetryInterval(variant)
    /\ probeGap = RetryInterval(variant)
    /\ nProbes = 0
    /\ nFail = 0
    /\ nOk = 0
    /\ nReady = 0
    /\ readyResult = "none"
    /\ nHealth = 0
    /\ nHealthErr = 0
    /\ sockOpen = 0
    /\ nOpened = 0
    /\ lastAttempt = NoAttempt
    /\ probeResult = "none"
    /\ exitStatus = "running"
    /\ uptime = 0

Init == LifeInit /\ ApiInit /\ apiKey = "" /\ FileInit /\ PathInit

(* SIGINT / SIGTERM: signal.NotifyContext cancels ctx *)
Cancel ==
    /\ Running
    /\ ~cancelled
    /\ cancelled' = TRUE
    /\ cancelPhase' = Phase
    /\ UNCHANGED <<apiVars, fileVars, pathVars>>
    /\ UNCHANGED <<uptime, variant, protocol, pc, delayLeft, retryT, healthT,
                   opElapsed, sinceProbe, probeGap, counters, readyResult,
                   sockOpen, nOpened, lastAttempt, probeResult, exitStatus>>

(* sdk.NewSDK() returns: an error ends the process with status 1 before    *)
(* the lifecycle starts (runMonitor returns the error, the unified main    *)
(* calls os.Exit(1)); otherwise the initial delay begins                   *)
SdkConnect ==
    /\ Running
    /\ pc = "connecting"
    /\ \E err \in BOOLEAN :
         /\ pc' = IF err THEN "sdk_failed" ELSE "delaying"
         /\ exitStatus' = IF err THEN "failure" ELSE "running"
    /\ UNCHANGED <<apiVars, fileVars, pathVars>>
    /\ UNCHANGED <<uptime, variant, protocol, cancelled, cancelPhase, delayLeft,
                   retryT, healthT, opElapsed, sinceProbe, probeGap, counters,
                   readyResult, sockOpen, nOpened, lastAttempt, probeResult>>

(* unified main: <-ctx.Done() returns and main ends, whatever RunManager   *)
(* is doing or has done                                                    *)
MainExit ==
    /\ Running
    /\ variant = "manager"
    /\ pc # "connecting"
    /\ DoneReady
    /\ exitStatus' = "success"
    /\ UNCHANGED <<apiVars, fileVars, pathVars>>
    /\ UNCHANGED <<uptime, variant, protocol, pc, cancelled, cancelPhase, delayLeft,
                   retryT, healthT, opElapsed, sinceProbe, probeGap, counters,
                   readyResult, sockOpen, nOpened, lastAttempt, probeResult>>

(* The goroutine is blocked and the blocking operation has not ended *)
TimeMayPass ==
    \/ pc = "delaying" /\ delayLeft > 0
    \/ pc = "probe_wait" /\ ~DoneReady /\ ~TickReady(retryT)
    \/ pc = "dialing" /\ opElapsed < AttemptMax(protocol)
    \/ pc = "reading" /\ opElapsed < PingTimeout
    \/ pc = "ready_call" /\ opElapsed < MaxCallTime
    \/ pc = "health_wait" /\ ~DoneReady /\ ~TickReady(healthT)
    \/ pc = "health_call" /\ opElapsed < MaxCallTime

(* One second passes *)
Tick ==
    /\ Running
    /\ TimeMayPass
    /\ delayLeft' = IF pc = "delaying" THEN delayLeft - 1 ELSE delayLeft
    /\ opElapsed' = IF pc \in {"dialing", "reading", "ready_call",
                               "health_call"}
                    THEN opElapsed + 1 ELSE opElapsed
    /\ retryT' = AdvanceTicker(retryT)
    /\ healthT' = AdvanceTicker(healthT)
    /\ sinceProbe' = Min(sinceProbe + 1, RetryInterval(variant))
    /\ uptime' = Min(uptime + 1, UptimeCap(variant))
    /\ UNCHANGED <<apiVars, fileVars, pathVars>>
    /\ UNCHANGED <<variant, protocol, pc, cancelled, cancelPhase, probeGap,
                   counters, readyResult, sockOpen, nOpened, lastAttempt,
                   probeResult, exitStatus>>

(* time.Sleep(cfg.InitialDelay) returns; the readiness loop starts and     *)
(* creates its ticker                                                      *)
DelayDone ==
    /\ Running
    /\ pc = "delaying"
    /\ delayLeft = 0
    /\ retryT' = NewTicker(RetryInterval(variant))
    /\ pc' = "probe_wait"
    /\ UNCHANGED <<apiVars, fileVars, pathVars>>
    /\ UNCHANGED <<uptime, variant, protocol, cancelled, cancelPhase, delayLeft,
                   healthT, opElapsed, sinceProbe, probeGap, counters,
                   readyResult, sockOpen, nOpened, lastAttempt, probeResult,
                   exitStatus>>

(* readiness loop, case <-ctx.Done(): return ctx.Err(); the caller treats  *)
(* the non-nil error as a failed probe and returns                         *)
ProbeCancel ==
    /\ Running
    /\ pc = "probe_wait"
    /\ DoneReady
    /\ retryT' = StopTicker(retryT)
    /\ pc' = "failed"
    /\ probeResult' = "ctx_err"
    /\ exitStatus' = ExitOnReturn(variant, "failed")
    /\ UNCHANGED <<apiVars, fileVars, pathVars>>
    /\ UNCHANGED <<uptime, variant, protocol, cancelled, cancelPhase, delayLeft,
                   healthT, opElapsed, sinceProbe, probeGap, counters,
                   readyResult, sockOpen, nOpened, lastAttempt>>

(* readiness loop, case <-ticker.C: a probe attempt starts *)
ProbeTick ==
    /\ Running
    /\ pc = "probe_wait"
    /\ TickReady(retryT)
    /\ retryT' = [retryT EXCEPT !.pending = FALSE]
    /\ pc' = "dialing"
    /\ opElapsed' = 0
    /\ probeGap' = sinceProbe
    /\ sinceProbe' = 0
    /\ nProbes' = Inc(nProbes)
    /\ lastAttempt' = NoAttempt
    /\ UNCHANGED <<apiVars, fileVars, pathVars>>
    /\ UNCHANGED <<uptime, variant, protocol, cancelled, cancelPhase, delayLeft,
                   healthT, nFail, nOk, nReady, readyResult, nHealth,
                   nHealthErr, sockOpen, nOpened, probeResult, exitStatus>>

(* The attempt ends with error err.  On failure the loop waits for the     *)
(* next tick; on success the loop returns nil (its deferred ticker.Stop    *)
(* runs) and the caller invokes sdk.Ready().                               *)
AttemptEnds(err) ==
    LET next == AfterProbe(err)
    IN /\ pc' = next
       /\ nFail' = IF err THEN Inc(nFail) ELSE nFail
       /\ nOk' = IF err THEN nOk ELSE Inc(nOk)
       /\ retryT' = IF next = "probe_wait" THEN retryT
                    ELSE StopTicker(retryT)
       /\ nReady' = IF next = "ready_call" THEN Inc(nReady) ELSE nReady
       /\ probeResult' = IF next = "probe_wait" THEN probeResult
                         ELSE IF err THEN "err" ELSE "nil"
       /\ exitStatus' = ExitOnReturn(variant, next)
       /\ opElapsed' = 0

(* net.DialTimeout returns (or is not called at all).  A connection that   *)
(* was obtained is written to where the code does so, and closed; only the *)
(* diagnostic read of the later PingProbe.Probe takes more time.           *)
DialDone ==
    /\ Running
    /\ pc = "dialing"
    /\ \E netErr \in BOOLEAN, wrErr \in BOOLEAN :
         LET dialled == DialsNetwork(variant, protocol)
             dialErr == ~dialled \/ DialErr(protocol, netErr)
             opened == ~dialErr
             wrote == opened /\ Writes(variant, protocol)
             writeErr == wrote /\ wrErr
             reads == wrote /\ ~writeErr /\ Reads(variant, protocol)
             closed == opened /\ ClosesConn(variant, protocol, writeErr)
             err == AttemptErr(variant, protocol, dialErr, writeErr, "none")
             att == [dial |-> IF ~dialled THEN "skipped"
                              ELSE IF dialErr THEN "err" ELSE "ok",
                     write |-> IF ~wrote THEN "none"
                               ELSE IF writeErr THEN "err" ELSE "ok",
                     read |-> "none",
                     result |-> IF err THEN "fail" ELSE "ok",
                     cause |-> Cause(variant, protocol, dialErr, writeErr)]
         IN /\ nOpened' = IF opened THEN Inc(nOpened) ELSE nOpened
            /\ IF reads
               THEN /\ pc' = "reading"
                    /\ sockOpen' = sockOpen + 1
                    /\ lastAttempt' = [att EXCEPT !.result = "none"]
                    /\ opElapsed' = 0
                    /\ UNCHANGED <<nFail, nOk, retryT, nReady, probeResult,
                                   exitStatus>>
               ELSE /\ sockOpen' = IF opened /\ ~closed
                                   THEN sockOpen + 1 ELSE sockOpen
                    /\ lastAttempt' = att
                    /\ AttemptEnds(err)
    /\ UNCHANGED <<apiVars, fileVars, pathVars>>
    /\ UNCHANGED <<uptime, variant, protocol, cancelled, cancelPhase, delayLeft,
                   healthT, sinceProbe, probeGap, nProbes, readyResult,
                   nHealth, nHealthErr>>

(* conn.Read returns: with data or an error before the read deadline, or   *)
(* with a timeout at the deadline; the connection is closed and the        *)
(* attempt ends                                                            *)
ReadDone ==
    /\ Running
    /\ pc = "reading"
    /\ \E readRes \in ReadOutcomes :
         LET err == AttemptErr(variant, protocol, FALSE, FALSE, readRes)
         IN /\ (readRes = "timeout") <=> (opElapsed = PingTimeout)
            /\ sockOpen' = IF ClosesConn(variant, protocol, FALSE)
                           THEN sockOpen - 1 ELSE sockOpen
            /\ lastAttempt' = [lastAttempt EXCEPT
                                 !.read = readRes,
                                 !.result = IF err THEN "fail" ELSE "ok"]
            /\ AttemptEnds(err)
    /\ UNCHANGED <<apiVars, fileVars, pathVars>>
    /\ UNCHANGED <<uptime, variant, protocol, cancelled, cancelPhase, delayLeft,
                   healthT, sinceProbe, probeGap, nProbes, readyResult,
                   nHealth, nHealthErr, nOpened>>

(* sdk.Ready() returns; on success the health ticker is created *)
ReadyReturn ==
    /\ Running
    /\ pc = "ready_call"
    /\ \E err \in BOOLEAN :
         LET next == AfterReady(err)
         IN /\ readyResult' = IF err THEN "err" ELSE "ok"
            /\ pc' = next
            /\ healthT' = IF next = "health_wait"
                          THEN NewTicker(HealthInterval) ELSE healthT
            /\ retryT' = IF next = "probe_wait"
                         THEN NewTicker(RetryInterval(variant)) ELSE retryT
            /\ nReady' = IF next = "ready_call" THEN Inc(nReady) ELSE nReady
            /\ exitStatus' = ExitOnReturn(variant, next)
    /\ opElapsed' = 0
    /\ UNCHANGED <<apiVars, fileVars, pathVars>>
    /\ UNCHANGED <<uptime, variant, protocol, cancelled, cancelPhase, delayLeft,
                   sinceProbe, probeGap, nProbes, nFail, nOk, nHealth,
                   nHealthErr, sockOpen, nOpened, lastAttempt, probeResult>>

(* heartbeat loop, case <-ticker.C: sdk.Health() is invoked *)
HealthTick ==
    /\ Running
    /\ pc = "health_wait"
    /\ TickReady(healthT)
    /\ healthT' = [healthT EXCEPT !.pending = FALSE]
    /\ pc' = "health_call"
    /\ opElapsed' = 0
    /\ nHealth' = Inc(nHealth)
    /\ UNCHANGED <<apiVars, fileVars, pathVars>>
    /\ UNCHANGED <<uptime, variant, protocol, cancelled, cancelPhase, delayLeft,
                   retryT, sinceProbe, probeGap, nProbes, nFail, nOk, nReady,
                   readyResult, nHealthErr, sockOpen, nOpened, lastAttempt,
                   probeResult, exitStatus>>

(* heartbeat loop, case <-ctx.Done(): return (deferred ticker.Stop runs) *)
HealthCancel ==
    /\ Running
    /\ pc = "health_wait"
    /\ DoneReady
    /\ healthT' = StopTicker(healthT)
    /\ pc' = "terminated"
    /\ exitStatus' = ExitOnReturn(variant, "terminated")
    /\ UNCHANGED <<apiVars, fileVars, pathVars>>
    /\ UNCHANGED <<uptime, variant, protocol, cancelled, cancelPhase, delayLeft,
                   retryT, opElapsed, sinceProbe, probeGap, counters,
                   readyResult, sockOpen, nOpened, lastAttempt, probeResult>>

(* sdk.Health() returns *)
HealthReturn ==
    /\ Running
    /\ pc = "health_call"
    /\ \E err \in BOOLEAN :
         LET next == AfterHealth(err)
         IN /\ nHealthErr' = IF err THEN Inc(nHealthErr) ELSE nHealthErr
            /\ pc' = next
            /\ healthT' = IF next = "health_wait" THEN healthT
                          ELSE StopTicker(healthT)
            /\ exitStatus' = ExitOnReturn(variant, next)
    /\ opElapsed' = 0
    /\ UNCHANGED <<apiVars, fileVars, pathVars>>
    /\ UNCHANGED <<uptime, variant, protocol, cancelled, cancelPhase, delayLeft,
                   retryT, sinceProbe, probeGap, nProbes, nFail, nOk, nReady,
                   readyResult, nHealth, sockOpen, nOpened, lastAttempt,
                   probeResult>>

Next ==
    \/ Cancel
    \/ SdkConnect
    \/ MainExit
    \/ Tick
    \/ DelayDone
    \/ ProbeCancel
    \/ ProbeTick
    \/ DialDone
    \/ ReadDone
    \/ ReadyReturn
    \/ HealthTick
    \/ HealthCancel
    \/ HealthReturn

Spec == Init /\ [][Next]_vars

(* The lifecycle under a fair scheduler: time passes, every sleep, dial,   *)
(* read and SDK call returns, and a select whose ctx.Done() case is ready  *)
(* again and again takes it at some point (Go picks at random among the    *)
(* ready cases)                                                            *)
Fairness ==
    /\ WF_vars(Tick)
    /\ WF_vars(SdkConnect)
    /\ WF_vars(MainExit)
    /\ WF_vars(DelayDone)
    /\ WF_vars(ProbeTick)
    /\ WF_vars(DialDone)
    /\ WF_vars(ReadDone)
    /\ WF_vars(ReadyReturn)
    /\ WF_vars(HealthTick)
    /\ WF_vars(HealthReturn)
    /\ SF_vars(ProbeCancel)
    /\ SF_vars(HealthCancel)

SpecLive == Spec /\ Fairness

(* The file API alone, beside a lifecycle that has not moved *)
InitApi == Init /\ variant = "manager" /\ protocol = "tcp"

SpecApi == InitApi /\ [][NextApi]_vars

(* The unified entry point: RunManager and Server.Run as two goroutines   *)
(* of one process.  The server answers the requests of one connection      *)
(* from the moment main has started it until the process ends.             *)
ServeRequest ==
    /\ Running
    /\ pc # "connecting"
    /\ \E path \in Paths : RateLimitRequest(FileIP, FilePort, <<>>, path)
    /\ UNCHANGED <<lifeVars, fileVars, pathVars>>

NextUnified ==
    \/ Cancel
    \/ SdkConnect
    \/ MainExit
    \/ Tick
    \/ DelayDone
    \/ ProbeCancel
    \/ ProbeTick
    \/ DialDone
    \/ ReadyReturn
    \/ HealthTick
    \/ HealthCancel
    \/ HealthReturn
    \/ ServeRequest

SpecUnified == InitApi /\ [][NextUnified]_vars

(* The limiter for the requests of one connection, sent directly or with   *)
(* an X-Forwarded-For header                                               *)
LimiterRequest ==
    /\ \E xff \in {<<>>, <<"10.0.0.9">>}, path \in Paths :
         RateLimitRequest(FileIP, FilePort, xff, path)
    /\ UNCHANGED <<lifeVars, fileVars, pathVars>>

NextLimiter ==
    \/ LimiterRequest
    \/ ResetFire
    \/ ApiTick

SpecLimiter == InitApi /\ [][NextLimiter]_vars

(* The file handlers behind the middleware, for the requests of one        *)
(* connection within one window of the limiter, with and without a         *)
(* configured key                                                          *)
InitFiles ==
    /\ LifeInit /\ variant = "manager" /\ protocol = "tcp"
    /\ ApiInit /\ FileInit /\ PathInit
    /\ apiKey \in {"", "k1"}

SpecFiles == InitFiles /\ [][NextFiles]_vars

(* sanitizePath applied to every path of UserPaths *)
InitPath ==
    /\ LifeInit /\ variant = "manager" /\ protocol = "tcp"
    /\ ApiInit /\ apiKey = "" /\ FileInit
    /\ userPath \in UserPaths
    /\ sanitized = NoPath

SpecPath == InitPath /\ [][NextPath]_vars

TypeOK ==
    /\ variant \in Variants
    /\ protocol \in Protocols
    /\ pc \in {"connecting", "sdk_failed", "delaying", "probe_wait",
               "dialing", "reading", "ready_call", "health_wait",
               "health_call", "terminated", "failed"}
    /\ sockOpen \in 0..MaxCount
    /\ exitStatus \in {"running", "success", "failure"}
    /\ probeResult \in {"none", "nil", "ctx_err", "err"}
    /\ cancelled \in BOOLEAN
    /\ delayLeft \in 0..InitialDelay
    /\ readyResult \in {"none", "ok", "err"}
    /\ nProbes \in 0..MaxCount
    /\ nHealth \in 0..MaxCount
    /\ uptime \in 0..UptimeCap(variant)
    /\ apiKey \in {"", "k1"}
    /\ fs.kind \in {"absent", "file", "dir"}
    /\ \A g \in Goroutines : up[g].pc \in {"idle", "checked", "opened"}
    /\ sanitized.called => (sanitized.err \/ HasPrefix(sanitized.path, DataRoot))

-----------------------------------------------------------------------------
(* Properties *)

HealthPCs == {"health_wait", "health_call"}

(* C1: sdk.Ready() is invoked at most once in a run, and never unless a    *)
(* probe attempt has already returned success.                             *)
C1_ReadyAtMostOnceAfterSuccess ==
    /\ nReady <= 1
    /\ nReady >= 1 => nOk >= 1

C1_Witness == nReady = 1 /\ nOk = 1 /\ nFail >= 1 /\ readyResult = "none"

(* C2: sdk.Health() is never invoked before sdk.Ready() was called and     *)
(* returned without error: no heartbeat in Delaying or Probing, and none   *)
(* in a run where sdk.Ready() returned an error.                           *)
C2_HealthOnlyAfterReadyOK ==
    /\ nHealth > 0 => readyResult = "ok"
    /\ pc \in HealthPCs => readyResult = "ok"
    /\ Phase \in {"Delaying", "Probing", "Ready"} => nHealth = 0
    /\ readyResult = "err" => nHealth = 0

C2_Witness == pc = "health_call" /\ nHealth = 1 /\ readyResult = "ok"

(* C3: when a probe succeeds, the run shows N failed outcomes, then one    *)
(* success, then exactly one sdk.Ready() call, then only sdk.Health()      *)
(* calls until cancellation, whatever N is.                                *)
C3_SuccessfulRunShape ==
    /\ nOk <= 1
    /\ nOk = 1 => /\ nReady = 1
                  /\ pc \in {"ready_call", "failed", "terminated"} \cup HealthPCs
    /\ nOk = 0 => nReady = 0 /\ nHealth = 0
    /\ (nOk = 1 /\ pc = "failed") => readyResult = "err"
    /\ pc = "terminated" => cancelled /\ nOk = 1 /\ readyResult = "ok"

C3_Witness ==
    /\ nFail = 3 /\ nOk = 1 /\ nReady = 1 /\ nHealth >= 2
    /\ pc = "terminated"

(* C4: when sdk.Ready() returns an error the lifecycle is Failed and stays *)
(* there: no second sdk.Ready(), no further probe, no sdk.Health().        *)
C4_ReadyErrorIsFatal ==
    /\ [](readyResult = "err" => pc = "failed" /\ nReady = 1 /\ nHealth = 0)
    /\ [][readyResult = "err" =>
            (UNCHANGED <<pc, counters, retryT, healthT, readyResult>>)]_vars

C4_Witness == readyResult = "err" /\ pc = "failed" /\ nFail >= 1 /\ cancelled

(* C5: a failing sdk.Health() is not fatal: from HealthChecking the        *)
(* lifecycle only goes to HealthChecking, except that the select leaves    *)
(* to Terminated when cancellation is observed.                            *)
C5_HealthErrorNotFatal ==
    [][(pc \in HealthPCs) =>
         (\/ pc' \in HealthPCs
          \/ (cancelled /\ pc = "health_wait" /\ pc' = "terminated"))]_vars

C5_Witness ==
    /\ pc = "health_call" /\ nHealth = 3 /\ nHealthErr = 2 /\ ~cancelled

(* C6: when the signal is delivered in Delaying, the run makes no probe    *)
(* attempt, no sdk.Ready() call and no sdk.Health() call.                  *)
C6_CancelInDelayingNoCalls ==
    cancelPhase = "Delaying" =>
        /\ nProbes = 0 /\ nReady = 0 /\ nHealth = 0
        /\ pc \in {"delaying", "probe_wait", "failed"}

C6_Witness == cancelPhase = "Delaying" /\ pc = "failed" /\ delayLeft = 0

(* C7: the initial delay is interruptible: a lifecycle in Delaying that    *)
(* has been cancelled goes straight to Terminated, without waiting and     *)
(* without entering Probing.                                               *)
C7_DelayInterruptible ==
    [][(cancelled /\ pc = "delaying") => pc' = "terminated"]_vars

(* C8: in the readiness loop no probe attempt starts once the signal has   *)
(* arrived, even if a retry tick is pending at the same moment.            *)
C8_CancelWinsOverRetryTick ==
    [][(cancelled /\ pc = "probe_wait") => pc' # "dialing"]_vars

(* C9: in HealthChecking no sdk.Health() call starts once the signal has   *)
(* arrived, even if a health tick is pending at the same moment.           *)
C9_CancelWinsOverHealthTick ==
    [][(cancelled /\ pc = "health_wait") => pc' # "health_call"]_vars

(* C10: two probe attempts never start closer together than the retry      *)
(* interval, however long an attempt takes.                                *)
C10_ProbeSpacing == probeGap >= RetryInterval(variant)

(* C11: the readiness loop never gives up: it is left only by a successful *)
(* attempt (towards sdk.Ready()) or by the ctx.Done() case; a failed       *)
(* attempt keeps the lifecycle in Probing.                                 *)
C11_LoopNeverGivesUp ==
    [][(Phase = "Probing" /\ Phase' # "Probing") =>
         (\/ (pc \in {"dialing", "reading"} /\ nOk' # nOk
                 /\ pc' = "ready_call")
          \/ (pc = "probe_wait" /\ cancelled /\ pc' = "failed"))]_vars

C11_Witness ==
    /\ pc = "probe_wait" /\ nFail = MaxCount /\ nOk = 0 /\ ~cancelled

(* C12: probe attempts are sequential and hold at most one socket, which   *)
(* is closed before the attempt ends: a socket is open only inside an      *)
(* attempt, never while the loop waits for a tick or after it returned.    *)
C12_OneSocketWithinAttempt ==
    /\ sockOpen <= 1
    /\ sockOpen = 1 => pc = "reading"
    /\ pc \notin {"dialing", "reading"} => sockOpen = 0

C12_Witness ==
    /\ pc = "probe_wait" /\ sockOpen = 0 /\ nOpened >= 2
    /\ lastAttempt.write = "err"

(* C13: the exit status reflects the outcome of the lifecycle: success     *)
(* after graceful cancellation in HealthChecking, failure after an SDK     *)
(* connection failure, a readiness probe error or a sdk.Ready() failure.   *)
C13_ExitStatusReflectsOutcome ==
    exitStatus # "running" =>
        /\ pc = "terminated" => exitStatus = "success"
        /\ pc \in {"sdk_failed", "failed"} => exitStatus = "failure"

(* C14: cancellation observed by the readiness loop is a result of its     *)
(* own, not an error: the run does not end the way a failed run ends.      *)
C14_CancelledIsNotAnError ==
    probeResult = "ctx_err" => (pc # "failed" /\ exitStatus # "failure")

(* C15: with a protocol that is neither tcp nor udp every attempt fails    *)
(* with the unsupported-transport cause, no socket is opened and           *)
(* sdk.Ready() is never invoked.                                           *)
C15_UnsupportedProtocolNeverReady ==
    protocol \notin {"tcp", "udp"} =>
        /\ nOk = 0 /\ nReady = 0 /\ nOpened = 0
        /\ lastAttempt.result # "none" =>
              (lastAttempt.result = "fail"
               /\ lastAttempt.cause = "unsupported")

(* C16: a UDP attempt succeeds exactly when the socket was created and     *)
(* the write of the payload succeeded, and fails with the dial's or the    *)
(* write's cause otherwise, whatever the diagnostic read gives.            *)
C16_UdpSuccessIffWriteOK ==
    (protocol = "udp" /\ lastAttempt.result # "none") =>
        /\ lastAttempt.result = "ok" <=>
              (lastAttempt.dial = "ok" /\ lastAttempt.write = "ok")
        /\ lastAttempt.result = "fail" =>
              lastAttempt.cause \in {"dial", "write"}

(* C17: the phase only moves forward along Delaying, Probing, Ready,       *)
(* HealthChecking, Terminated, or into Failed from Delaying, Probing or    *)
(* the sdk.Ready() step; Terminated and Failed are never left and nothing  *)
(* is called in them.                                                      *)
PhaseSteps ==
    {<<"NotStarted", "Delaying">>, <<"Delaying", "Probing">>,
     <<"Probing", "Ready">>, <<"Ready", "HealthChecking">>,
     <<"HealthChecking", "Terminated">>, <<"Delaying", "Failed">>,
     <<"Probing", "Failed">>, <<"Ready", "Failed">>}

C17_PhasesOnlyForward ==
    /\ [][Phase' # Phase => <<Phase, Phase'>> \in PhaseSteps]_vars
    /\ [][(pc \in {"terminated", "failed"}) =>
            (UNCHANGED <<pc, counters, retryT, healthT, sockOpen, nOpened>>)]_vars

C17_Witness == pc = "terminated" /\ nFail >= 1 /\ nHealthErr >= 1

(* C18: at most one ticker is active at any time: the retry ticker only    *)
(* in Probing, the health ticker only in HealthChecking, none once the     *)
(* lifecycle has terminated or failed.                                     *)
C18_OneActiveTicker ==
    /\ ~(retryT.on /\ healthT.on)
    /\ retryT.on => Phase = "Probing"
    /\ healthT.on => Phase = "HealthChecking"
    /\ pc \in {"terminated", "failed"} => (~retryT.on /\ ~healthT.on)

C18_Witness ==
    /\ pc = "terminated" /\ ~retryT.on /\ ~healthT.on
    /\ retryT.period > 0 /\ healthT.period > 0

(* C19: in HealthChecking every tick of the health ticker that fires       *)
(* before cancellation gets its own sdk.Health() call: the ticker never    *)
(* fires while the previous tick is still waiting in its channel (such a   *)
(* tick is dropped), however long a sdk.Health() call takes.               *)
C19_NoHealthTickDropped ==
    [][(Tick /\ ~cancelled /\ healthT.on /\ healthT.left = 1) =>
         ~healthT.pending]_vars

RECURSIVE SumAges(_, _)
SumAges(f, n) == IF n = 0 THEN f[0] ELSE f[n] + SumAges(f, n - 1)

(* requests of one client IP passed to a handler within the last minute *)
ForwardedInWindow(ip) == SumAges(recent[ip], Minute - 1)

(* C20: for every client IP, at most RateLimit requests to endpoints       *)
(* other than /health are passed to a handler within any one minute.       *)
C20_RateLimitPerIP ==
    \A ip \in ClientIPs : ForwardedInWindow(ip) <= RateLimit

(* C21: when an API key is configured, a request enters a file-management  *)
(* handler (list, download, upload, delete, create-dir) only if its        *)
(* X-API-Key header carries that key.                                      *)
C21_KeyRequiredWhenConfigured ==
    (apiKey # "" /\ lastHandled.endpoint # "none") =>
        lastHandled.hdr = apiKey

(* C22: sanitizePath returns an error or a path that is the data root or   *)
(* lies below it, whatever the client's path is.                           *)
C22_SanitizedWithinRoot ==
    (sanitized.called /\ ~sanitized.err) => WithinRoot(sanitized.path)

(* C23: an upload without overwrite=true never opens (and so never         *)
(* empties or replaces) a destination file that exists, whatever other     *)
(* uploads to the same destination do in between.                          *)
C23_NoOverwriteKeepsFile ==
    [][\A g \in Goroutines :
         (up[g].pc = "checked" /\ ~up[g].overwrite /\ up'[g].pc = "opened")
            => fs.kind = "absent"]_vars

(* C24: a request to /health is never answered 429 and changes neither     *)
(* the request counts nor the reset timers, whatever its client's count.   *)
C24_HealthExempt ==
    /\ [](lastResponse.path = "/health" => lastResponse.status # "429")
    /\ [][(lastResponse' # lastResponse /\ lastResponse'.path = "/health")
            => (UNCHANGED <<requestCounts, resetTimers>>)]_vars

C24_Witness ==
    /\ lastResponse.path = "/health"
    /\ lastResponse.status = "forwarded"
    /\ Lookup(requestCounts, lastResponse.key) = MaxReq

(* C25: the readiness loop issues no probe when it starts: the first probe *)
(* attempt, and so sdk.Ready(), comes no earlier than the initial delay    *)
(* plus one retry interval after the start of the process.                 *)
C25_FirstProbeAfterInterval ==
    /\ [](nProbes >= 1 => uptime >= FirstProbeTime(variant))
    /\ [](nReady >= 1 => uptime >= FirstProbeTime(variant))
    /\ [][(pc = "delaying" /\ pc' # "delaying") =>
            (pc' = "probe_wait" /\ nProbes' = 0 /\ ~TickReady(retryT'))]_vars

C25_Witness ==
    /\ pc = "ready_call" /\ nReady = 1 /\ nFail = 0
    /\ uptime = FirstProbeTime(variant)

(* C26: once the signal has been delivered the lifecycle returns (or the   *)
(* process has ended) after finitely many steps, in whatever phase the     *)
(* signal arrived; it does not go on probing or sending heartbeats for     *)
(* ever.                                                                   *)
C26_CancelLeadsToReturn ==
    cancelled ~> (pc \in {"terminated", "failed"} \/ ~Running)

C26_Witness ==
    /\ cancelPhase = "Ready" /\ pc = "terminated" /\ readyResult = "ok"

(* C27: every client key has at most one pending reset timer, and has one  *)
(* exactly while it has an entry; a timer is started only by a request     *)
(* that finds the count at 0, and the entry is deleted only by that timer, *)
(* one minute after the request that started it.                           *)
C27_OneResetTimerPerKey ==
    /\ [](\A key \in ApiKeys :
            /\ Cardinality(resetTimers[key]) <= 1
            /\ (key \in DOMAIN requestCounts) <=> (resetTimers[key] # {}))
    /\ [][\A key \in ApiKeys :
            (Minute \in resetTimers'[key] /\ Minute \notin resetTimers[key])
               => (Lookup(requestCounts, key) = 0
                   /\ Lookup(requestCounts', key) = 1)]_vars
    /\ [][\A key \in ApiKeys :
            (key \in DOMAIN requestCounts /\ key \notin DOMAIN requestCounts')
               => (resetTimers[key] = {0} /\ resetTimers'[key] = {})]_vars

C27_Witness ==
    \E key \in ApiKeys :
        /\ Lookup(requestCounts, key) = MaxReq
        /\ resetTimers[key] = {0}

(* C28: refused requests are counted too: while a key keeps its entry its  *)
(* count never decreases, every counted request adds one to it, and the    *)
(* request is refused exactly when the count it finds has reached the      *)
(* limit; so after one refusal every further request of the window is      *)
(* refused.                                                                *)
C28_RejectedUntilReset ==
    /\ [][\A key \in ApiKeys :
            (key \in DOMAIN requestCounts /\ key \in DOMAIN requestCounts')
               => requestCounts'[key] >= requestCounts[key]]_vars
    /\ [][\A key \in ApiKeys :
            (Lookup(requestCounts', key) > Lookup(requestCounts, key))
               => /\ Lookup(requestCounts', key) = Lookup(requestCounts, key) + 1
                  /\ lastResponse'.key = key
                  /\ lastResponse'.path # "/health"
                  /\ (Lookup(requestCounts, key) >= RateLimit
                        => lastResponse'.status = "429")]_vars
    /\ [][(lastResponse' # lastResponse /\ lastResponse'.status = "429")
            => (Lookup(requestCounts', lastResponse'.key)
                  = Lookup(requestCounts, lastResponse'.key) + 1)]_vars

C28_Witness ==
    /\ lastResponse.status = "429"
    /\ Lookup(requestCounts, lastResponse.key) = RateLimit + 2

(* C29: in the unified entry point the lifecycle manager and the file API  *)
(* are coupled by the signal only: when RunManager has returned and no     *)
(* signal has arrived the process is running and the server answers; the   *)
(* process, once both tasks are started, ends only after the signal; and   *)
(* no step of the lifecycle changes the limiter's state, nor a request     *)
(* the lifecycle's.                                                        *)
C29_CoupledBySignalOnly ==
    /\ []((pc \in {"failed", "terminated"} /\ ~cancelled)
            => (Running /\ ENABLED ServeRequest))
    /\ [][(exitStatus = "running" /\ exitStatus' # "running")
            => (cancelled \/ pc = "connecting")]_vars
    /\ [][(lifeVars' # lifeVars) => (UNCHANGED apiVars)]_vars
    /\ [][(apiVars' # apiVars) => (UNCHANGED lifeVars)]_vars

C29_Witness ==
    /\ pc = "failed" /\ readyResult = "err" /\ ~cancelled /\ Running
    /\ lastResponse.status = "429"

====
